---- MODULE Spec2Model ----
(***************************************************************************)
(* Model of services/horizon/internal/db2/history/trade.go: the recorder   *)
(* InsertTrade, the TradesQ query builder (Trades, ReverseTrades,          *)
(* TradesForAssetPair, ForOffer, ForLedger, ForAccount, Page, Select) and  *)
(* the reconciliation CheckExpTrades, over the tables history_trades and   *)
(* exp_history_trades with their account and asset id tables.              *)
(***************************************************************************)
EXTENDS Integers, Sequences, FiniteSets, TLC

VARIABLES
    historyTrades,       \* rows of history_trades
    expHistoryTrades,    \* rows of exp_history_trades
    historyAccounts,     \* history_accounts: address -> id (0: no row)
    expHistoryAccounts,  \* exp_history_accounts
    historyAssets,       \* history_assets: asset -> id (0: no row)
    expHistoryAssets,    \* exp_history_assets
    recorded,     \* history: the arguments of every InsertTrade call that returned nil
    expRecorded,  \* history: the same for the candidate pipeline
    q,            \* the TradesQ under construction
    ret,          \* what the last operation returned
    pager         \* a client that walks the pages of Trades()

vars == <<historyTrades, expHistoryTrades, historyAccounts, expHistoryAccounts, historyAssets, expHistoryAssets,
          recorded, expRecorded, q, ret, pager>>

-----------------------------------------------------------------------------
(* Bounds of the model. *)

MaxTrades == 2      \* rows per trades table
MaxPagedTrades == 3 \* rows of the table that is paged
MaxOfferId == 2     \* raw offer ids are 1..MaxOfferId
MaxAssetId == 2     \* asset ids are 1..MaxAssetId
MaxChain == 3       \* filter calls per TradesQ chain
MaxLimit == 2       \* page limits are 1..MaxLimit

\* Integer widths, scaled down: int32 is 8 bits wide and int64 is 16 bits wide.
MaxInt32 == 127
MaxInt64 == 32767

\* Operation ids per ledger in toid.ID.ToInt64 (2^32 in the code).
LedgerShift == 2

\* The offer id type tag sits above the raw id (bit 62 in the code).
OfferTypeShift == 8

Orders == {0, 1}
OfferIds == 1 .. MaxOfferId
AssetIds == 1 .. MaxAssetId

Addresses == {"GSELL", "GBUY"}

AssetX == [type |-> "credit_alphanum4", code |-> "USD", issuer |-> "GISS"]
AssetY == [type |-> "native", code |-> "", issuer |-> ""]
AssetKeys == {AssetX, AssetY}

-----------------------------------------------------------------------------
(* Collaborators the recorder calls. *)

CoreOfferIDType == 0
TOIDType == 1

\* EncodeOfferId: the raw id tagged with its namespace.
EncodeOfferId(id, typ) == id + typ * OfferTypeShift

\* xdr.Price.Invert swaps numerator and denominator.
Invert(p) == [N |-> p.D, D |-> p.N]

\* supportTime.Millis.ToTime: milliseconds to (seconds, nanoseconds).
ToTime(ms) == [sec |-> ms \div 1000, nsec |-> (ms % 1000) * 1000000]

\* time.Time.Unix
Unix(t) == t.sec

\* toid.ID{LedgerSequence: seq}.ToInt64()
ToInt64(seq) == seq * LedgerShift

MaxId(tbl) ==
    LET used == {tbl[k] : k \in DOMAIN tbl}
    IN CHOOSE m \in used : \A n \in used : n <= m

\* GetCreateAccountID: the id of the address, created (next serial id) if absent.
GetCreateAccountID(tbl, addr) ==
    IF tbl[addr] # 0 THEN tbl ELSE [tbl EXCEPT ![addr] = MaxId(tbl) + 1]

\* GetCreateAssetID: the id of the asset, created with the unused id `fresh` if absent.
GetCreateAssetID(tbl, asset, fresh) ==
    IF tbl[asset] # 0 THEN tbl ELSE [tbl EXCEPT ![asset] = fresh]

\* `fresh` is an id the table may hand out for the asset: an unused one when
\* the asset has no row (when it has one, no id is handed out: the choice is
\* pinned to that id).
FreshFor(tbl, asset, fresh) ==
    IF tbl[asset] # 0 THEN fresh = tbl[asset]
    ELSE \A k \in DOMAIN tbl : tbl[k] # fresh

AddressOf(tbl, id) == CHOOSE a \in DOMAIN tbl : tbl[a] = id
AssetOf(tbl, id) == CHOOSE a \in DOMAIN tbl : tbl[a] = id

-----------------------------------------------------------------------------
(* Trade.PagingToken: fmt.Sprintf("%d-%d", HistoryOperationID, Order), as a
   sequence of characters. *)

DigitChars == <<"0", "1", "2", "3", "4", "5", "6", "7", "8", "9">>

RECURSIVE FormatInt(_)
FormatInt(n) ==
    IF n < 10 THEN <<DigitChars[n + 1]>>
    ELSE FormatInt(n \div 10) \o <<DigitChars[(n % 10) + 1]>>

PagingTokenOpOnly(r) == FormatInt(r.HistoryOperationID)

PagingToken(r) == FormatInt(r.HistoryOperationID) \o <<"-">> \o FormatInt(r.Order)

-----------------------------------------------------------------------------
(* getCanonicalAssetOrder *)

getCanonicalAssetOrderNoSwap(assetId1, assetId2) ==
    [orderPreserved |-> TRUE, baseAssetId |-> assetId1, counterAssetId |-> assetId2]

getCanonicalAssetOrder(assetId1, assetId2) ==
    IF assetId1 < assetId2
    THEN [orderPreserved |-> TRUE, baseAssetId |-> assetId1, counterAssetId |-> assetId2]
    ELSE [orderPreserved |-> FALSE, baseAssetId |-> assetId2, counterAssetId |-> assetId1]

-----------------------------------------------------------------------------
(* InsertTrade *)

sellOfferId(c) == EncodeOfferId(c.trade.OfferId, CoreOfferIDType)

buyOfferIdCoreOnly(c) ==
    IF c.buyOfferExists
    THEN EncodeOfferId(c.buyOffer, CoreOfferIDType)
    ELSE EncodeOfferId(c.opid, CoreOfferIDType)

buyOfferId(c) ==
    IF c.buyOfferExists
    THEN EncodeOfferId(c.buyOffer, CoreOfferIDType)
    ELSE EncodeOfferId(c.opid, TOIDType)

\* The row InsertTrade hands to tradesInsert.Values.
tradesInsertValues(c, sellerAccountId, buyerAccountId, soldAssetId, boughtAssetId) ==
    LET o == getCanonicalAssetOrder(soldAssetId, boughtAssetId)
        p == o.orderPreserved
        sellPrice == IF p THEN c.sellPrice ELSE Invert(c.sellPrice)
    IN [history_operation_id |-> c.opid,
        order                |-> c.order,
        ledger_closed_at     |-> ToTime(c.ledgerClosedAt),
        offer_id             |-> c.trade.OfferId,
        base_offer_id        |-> IF p THEN sellOfferId(c) ELSE buyOfferId(c),
        base_account_id      |-> IF p THEN sellerAccountId ELSE buyerAccountId,
        base_asset_id        |-> o.baseAssetId,
        base_amount          |-> IF p THEN c.trade.AmountSold ELSE c.trade.AmountBought,
        counter_offer_id     |-> IF p THEN buyOfferId(c) ELSE sellOfferId(c),
        counter_account_id   |-> IF p THEN buyerAccountId ELSE sellerAccountId,
        counter_asset_id     |-> o.counterAssetId,
        counter_amount       |-> IF p THEN c.trade.AmountBought ELSE c.trade.AmountSold,
        base_is_seller       |-> p,
        price_n              |-> sellPrice.N,
        price_d              |-> sellPrice.D]

\* q.Exec of the insert: the table's key (history_operation_id, "order") is
\* unique, and the statement may fail for any other reason (dbFails).
Exec(rows, row, dbFails) ==
    IF \/ dbFails
       \/ \E r \in rows : /\ r.history_operation_id = row.history_operation_id
                          /\ r.order = row.order
    THEN [err |-> "exec", rows |-> rows]
    ELSE [err |-> "nil", rows |-> rows \cup {row}]

Fails == {"none", "seller", "buyer", "sold", "bought", "exec"}

\* InsertTrade on the tables db = [historyTrades, historyAccounts, historyAssets].  `fail` names
\* the collaborator call that fails, freshSold and freshBought are the ids
\* the asset table hands out when it has to create a row.
insertTradeKeepGoing(c, fail, db, freshSold, freshBought) ==
    LET acc1 == GetCreateAccountID(db.accounts, c.trade.SellerId)
        acc2 == GetCreateAccountID(acc1, c.buyer)
        ast1 == GetCreateAssetID(db.assets, c.trade.AssetSold, freshSold)
        ast2 == GetCreateAssetID(ast1, c.trade.AssetBought, freshBought)
        row  == tradesInsertValues(c, acc2[c.trade.SellerId], acc2[c.buyer],
                                   ast2[c.trade.AssetSold], ast2[c.trade.AssetBought])
        ex   == Exec(db.trades, row, fail = "exec")
    IN  IF fail = "seller" THEN
            [err |-> "failed to load seller account id", trades |-> db.trades,
             accounts |-> db.accounts, assets |-> db.assets]
        ELSE IF fail = "buyer" THEN
            [err |-> "failed to load buyer account id", trades |-> db.trades,
             accounts |-> acc1, assets |-> db.assets]
        ELSE IF fail = "sold" THEN
            [err |-> "failed to get sold asset id", trades |-> db.trades,
             accounts |-> acc2, assets |-> db.assets]
        ELSE IF fail = "bought" THEN
            [err |-> "failed to get bought asset id", trades |-> ex.rows,
             accounts |-> acc2, assets |-> ast1]
        ELSE IF ex.err # "nil" THEN
            [err |-> "failed to exec sql", trades |-> ex.rows,
             accounts |-> acc2, assets |-> ast2]
        ELSE
            [err |-> "nil", trades |-> ex.rows, accounts |-> acc2, assets |-> ast2]

insertTrade(c, fail, db, freshSold, freshBought) ==
    LET acc1 == GetCreateAccountID(db.accounts, c.trade.SellerId)
        acc2 == GetCreateAccountID(acc1, c.buyer)
        ast1 == GetCreateAssetID(db.assets, c.trade.AssetSold, freshSold)
        ast2 == GetCreateAssetID(ast1, c.trade.AssetBought, freshBought)
        row  == tradesInsertValues(c, acc2[c.trade.SellerId], acc2[c.buyer],
                                   ast2[c.trade.AssetSold], ast2[c.trade.AssetBought])
        ex   == Exec(db.trades, row, fail = "exec")
    IN  IF fail = "seller" THEN
            [err |-> "failed to load seller account id", trades |-> db.trades,
             accounts |-> db.accounts, assets |-> db.assets]
        ELSE IF fail = "buyer" THEN
            [err |-> "failed to load buyer account id", trades |-> db.trades,
             accounts |-> acc1, assets |-> db.assets]
        ELSE IF fail = "sold" THEN
            [err |-> "failed to get sold asset id", trades |-> db.trades,
             accounts |-> acc2, assets |-> db.assets]
        ELSE IF fail = "bought" THEN
            [err |-> "failed to get bought asset id", trades |-> db.trades,
             accounts |-> acc2, assets |-> ast1]
        ELSE IF ex.err # "nil" THEN
            [err |-> "failed to exec sql", trades |-> ex.rows,
             accounts |-> acc2, assets |-> ast2]
        ELSE
            [err |-> "nil", trades |-> ex.rows, accounts |-> acc2, assets |-> ast2]

FreshOk(tbl, c, freshSold, freshBought) ==
    /\ FreshFor(tbl, c.trade.AssetSold, freshSold)
    /\ FreshFor(GetCreateAssetID(tbl, c.trade.AssetSold, freshSold),
                c.trade.AssetBought, freshBought)

NoQ == [src |-> "none", fields |-> "none", where |-> {}, orderBy |-> <<>>,
        limit |-> 0, Err |-> "nil", calls |-> [n |-> 0, malformed |-> FALSE]]

Returned(op, err) == [op |-> op, err |-> err, rows |-> <<>>, executed |-> FALSE,
                      consistent |-> FALSE, of |-> NoQ]

\* The primary pipeline records a trade in history_trades.
InsertTrade(c, fail) ==
    /\ \E freshSold, freshBought \in AssetIds :
         /\ FreshOk(historyAssets, c, freshSold, freshBought)
         /\ LET o == insertTrade(c, fail,
                                 [trades |-> historyTrades, accounts |-> historyAccounts, assets |-> historyAssets],
                                 freshSold, freshBought)
            IN /\ historyTrades' = o.trades
               /\ historyAccounts' = o.accounts
               /\ historyAssets' = o.assets
               /\ recorded' = IF o.err = "nil" THEN recorded \cup {c} ELSE recorded
               /\ ret' = Returned("InsertTrade", o.err)
    /\ UNCHANGED <<expHistoryTrades, expHistoryAccounts, expHistoryAssets, expRecorded, q, pager>>

\* The candidate pipeline records the same kind of event in exp_history_trades.
ExpInsertTrade(c, fail) ==
    /\ \E freshSold, freshBought \in AssetIds :
         /\ FreshOk(expHistoryAssets, c, freshSold, freshBought)
         /\ LET o == insertTrade(c, fail,
                                 [trades |-> expHistoryTrades, accounts |-> expHistoryAccounts,
                                  assets |-> expHistoryAssets],
                                 freshSold, freshBought)
            IN /\ expHistoryTrades' = o.trades
               /\ expHistoryAccounts' = o.accounts
               /\ expHistoryAssets' = o.assets
               /\ expRecorded' = IF o.err = "nil" THEN expRecorded \cup {c} ELSE expRecorded
               /\ ret' = Returned("ExpInsertTrade", o.err)
    /\ UNCHANGED <<historyTrades, historyAccounts, historyAssets, recorded, q, pager>>

-----------------------------------------------------------------------------
(* The Trade rows a query returns: the select lists joined with the account
   and asset tables. *)

selectTradeFields(r, acc, ast) ==
    LET b == AssetOf(ast, r.base_asset_id)
        c == AssetOf(ast, r.counter_asset_id)
    IN [HistoryOperationID |-> r.history_operation_id,
        Order              |-> r.order,
        LedgerCloseTime    |-> r.ledger_closed_at,
        OfferID            |-> r.offer_id,
        BaseOfferID        |-> r.base_offer_id,
        BaseAccount        |-> AddressOf(acc, r.base_account_id),
        BaseAssetType      |-> b.type,
        BaseAssetCode      |-> b.code,
        BaseAssetIssuer    |-> b.issuer,
        BaseAmount         |-> r.base_amount,
        CounterOfferID     |-> r.counter_offer_id,
        CounterAccount     |-> AddressOf(acc, r.counter_account_id),
        CounterAssetType   |-> c.type,
        CounterAssetCode   |-> c.code,
        CounterAssetIssuer |-> c.issuer,
        CounterAmount      |-> r.counter_amount,
        BaseIsSeller       |-> r.base_is_seller,
        PriceN             |-> r.price_n,
        PriceD             |-> r.price_d]

selectReverseTradeFieldsSamePrice(r, acc, ast) ==
    LET b == AssetOf(ast, r.counter_asset_id)
        c == AssetOf(ast, r.base_asset_id)
    IN [HistoryOperationID |-> r.history_operation_id,
        Order              |-> r.order,
        LedgerCloseTime    |-> r.ledger_closed_at,
        OfferID            |-> r.offer_id,
        BaseOfferID        |-> r.counter_offer_id,
        BaseAccount        |-> AddressOf(acc, r.counter_account_id),
        BaseAssetType      |-> b.type,
        BaseAssetCode      |-> b.code,
        BaseAssetIssuer    |-> b.issuer,
        BaseAmount         |-> r.counter_amount,
        CounterOfferID     |-> r.base_offer_id,
        CounterAccount     |-> AddressOf(acc, r.base_account_id),
        CounterAssetType   |-> c.type,
        CounterAssetCode   |-> c.code,
        CounterAssetIssuer |-> c.issuer,
        CounterAmount      |-> r.base_amount,
        BaseIsSeller       |-> ~r.base_is_seller,
        PriceN             |-> r.price_n,
        PriceD             |-> r.price_d]

selectReverseTradeFields(r, acc, ast) ==
    LET b == AssetOf(ast, r.counter_asset_id)
        c == AssetOf(ast, r.base_asset_id)
    IN [HistoryOperationID |-> r.history_operation_id,
        Order              |-> r.order,
        LedgerCloseTime    |-> r.ledger_closed_at,
        OfferID            |-> r.offer_id,
        BaseOfferID        |-> r.counter_offer_id,
        BaseAccount        |-> AddressOf(acc, r.counter_account_id),
        BaseAssetType      |-> b.type,
        BaseAssetCode      |-> b.code,
        BaseAssetIssuer    |-> b.issuer,
        BaseAmount         |-> r.counter_amount,
        CounterOfferID     |-> r.base_offer_id,
        CounterAccount     |-> AddressOf(acc, r.base_account_id),
        CounterAssetType   |-> c.type,
        CounterAssetCode   |-> c.code,
        CounterAssetIssuer |-> c.issuer,
        CounterAmount      |-> r.base_amount,
        BaseIsSeller       |-> ~r.base_is_seller,
        PriceN             |-> r.price_d,
        PriceD             |-> r.price_n]

-----------------------------------------------------------------------------
(* The TradesQ builder.  A TradesQ is [src, fields, where, orderBy, limit,
   Err]; `calls` is the history of the chain. *)

NoLimit == 0 - 1

Where(t, a, b, dir) == [t |-> t, a |-> a, b |-> b, dir |-> dir]

\* History of a chain: how many filter calls it has had, and whether one of
\* them was a Page call with a malformed cursor.
NoCalls == [n |-> 0, malformed |-> FALSE]

Called(qq, name, arg) ==
    [n |-> qq.calls.n + 1, malformed |-> qq.calls.malformed \/ arg = "malformed"]

Trades ==
    [src |-> "history_trades", fields |-> "selectTradeFields", where |-> {},
     orderBy |-> <<>>, limit |-> NoLimit, Err |-> "nil",
     calls |-> NoCalls]

expTrades ==
    [src |-> "exp_history_trades", fields |-> "selectTradeFields", where |-> {},
     orderBy |-> <<>>, limit |-> NoLimit, Err |-> "nil",
     calls |-> NoCalls]

ReverseTrades ==
    [src |-> "history_trades", fields |-> "selectReverseTradeFields", where |-> {},
     orderBy |-> <<>>, limit |-> NoLimit, Err |-> "nil",
     calls |-> NoCalls]

ForOffer(qq, id) ==
    [qq EXCEPT !.where = @ \cup {Where("offer", id, id, "")},
               !.calls = Called(qq, "ForOffer", "")]

forAssetPair(qq, baseAssetId, counterAssetId) ==
    [qq EXCEPT !.where = @ \cup {Where("pair", baseAssetId, counterAssetId, "")}]

TradesForAssetPair(baseAssetId, counterAssetId) ==
    LET o == getCanonicalAssetOrder(baseAssetId, counterAssetId)
        t == IF o.orderPreserved THEN Trades ELSE ReverseTrades
    IN forAssetPair(t, o.baseAssetId, o.counterAssetId)

ForLedger(qq, sequence, order) ==
    [qq EXCEPT !.where = @ \cup {Where("ledger", ToInt64(sequence), ToInt64(sequence + 1), "")},
               !.orderBy = Append(@, order),
               !.calls = Called(qq, "ForLedger", "")]

\* q.parent.AccountByAddress: the account row of the address, or an error.
AccountByAddress(aid) ==
    IF historyAccounts[aid] # 0
    THEN [err |-> "nil", ID |-> historyAccounts[aid]]
    ELSE [err |-> "account not found", ID |-> 0]

ForAccount(qq, aid) ==
    LET account == AccountByAddress(aid)
    IN IF account.err # "nil"
       THEN [qq EXCEPT !.Err = account.err,
                       !.calls = Called(qq, "ForAccount", "unresolved")]
       ELSE [qq EXCEPT !.Err = "nil",
                       !.where = @ \cup {Where("account", account.ID, account.ID, "")},
                       !.calls = Called(qq, "ForAccount", "resolved")]

-----------------------------------------------------------------------------
(* db2.PageQuery.CursorInt64Pair: the cursor "<op>-<idx>" as two integers. *)

IsDigit(ch) == \E i \in 1 .. 10 : DigitChars[i] = ch
DigitValue(ch) == (CHOOSE i \in 1 .. 10 : DigitChars[i] = ch) - 1

RECURSIVE ParseDigits(_, _)
ParseDigits(s, acc) ==
    IF s = <<>> THEN acc
    ELSE IF acc * 10 + DigitValue(Head(s)) > MaxInt64 THEN 0 - 1
    ELSE ParseDigits(Tail(s), acc * 10 + DigitValue(Head(s)))

\* strconv.ParseInt of an unsigned decimal; -1 when it does not parse.
ParseInt(s) ==
    IF s = <<>> \/ \E i \in 1 .. Len(s) : ~IsDigit(s[i]) THEN 0 - 1
    ELSE ParseDigits(s, 0)

SepAt(s) ==
    IF \E i \in 1 .. Len(s) : s[i] = "-"
    THEN CHOOSE i \in 1 .. Len(s) : s[i] = "-" /\ \A j \in 1 .. (i - 1) : s[j] # "-"
    ELSE 0

CursorInt64Pair(page) ==
    IF page.Cursor = <<>> THEN
        IF page.Order = "asc" THEN [err |-> "nil", op |-> 0, idx |-> 0]
        ELSE IF page.Order = "desc" THEN [err |-> "nil", op |-> MaxInt64, idx |-> MaxInt64]
        ELSE [err |-> "invalid order", op |-> 0, idx |-> 0]
    ELSE
        LET i == SepAt(page.Cursor)
            l == IF i = 0 THEN 0 - 1 ELSE ParseInt(SubSeq(page.Cursor, 1, i - 1))
            r == IF i = 0 THEN 0 - 1
                 ELSE ParseInt(SubSeq(page.Cursor, i + 1, Len(page.Cursor)))
        IN IF l < 0 \/ r < 0
           THEN [err |-> "invalid cursor", op |-> 0, idx |-> 0]
           ELSE [err |-> "nil", op |-> l, idx |-> r]

-----------------------------------------------------------------------------
(* TradesQ.Page *)

PageInclusive(qq, page) ==
    LET c == CursorInt64Pair(page)
        idx == IF c.idx > MaxInt32 THEN MaxInt32 ELSE c.idx
    IN IF qq.Err # "nil"
       THEN [qq EXCEPT !.calls = Called(qq, "Page", IF c.err # "nil" THEN "malformed" ELSE "ok")]
       ELSE IF c.err # "nil"
       THEN [qq EXCEPT !.Err = c.err, !.calls = Called(qq, "Page", "malformed")]
       ELSE IF page.Order = "asc"
       THEN [qq EXCEPT !.where = @ \cup {Where("page", c.op, idx - 1, "asc")},
                       !.orderBy = Append(@, "asc"),
                       !.limit = page.Limit,
                       !.calls = Called(qq, "Page", "ok")]
       ELSE IF page.Order = "desc"
       THEN [qq EXCEPT !.where = @ \cup {Where("page", c.op, idx + 1, "desc")},
                       !.orderBy = Append(@, "desc"),
                       !.limit = page.Limit,
                       !.calls = Called(qq, "Page", "ok")]
       ELSE [qq EXCEPT !.limit = page.Limit, !.calls = Called(qq, "Page", "ok")]

Page(qq, page) ==
    LET c == CursorInt64Pair(page)
        idx == IF c.idx > MaxInt32 THEN MaxInt32 ELSE c.idx
    IN IF qq.Err # "nil"
       THEN [qq EXCEPT !.calls = Called(qq, "Page", IF c.err # "nil" THEN "malformed" ELSE "ok")]
       ELSE IF c.err # "nil"
       THEN [qq EXCEPT !.Err = c.err, !.calls = Called(qq, "Page", "malformed")]
       ELSE IF page.Order = "asc"
       THEN [qq EXCEPT !.where = @ \cup {Where("page", c.op, idx, "asc")},
                       !.orderBy = Append(@, "asc"),
                       !.limit = page.Limit,
                       !.calls = Called(qq, "Page", "ok")]
       ELSE IF page.Order = "desc"
       THEN [qq EXCEPT !.where = @ \cup {Where("page", c.op, idx, "desc")},
                       !.orderBy = Append(@, "desc"),
                       !.limit = page.Limit,
                       !.calls = Called(qq, "Page", "ok")]
       ELSE [qq EXCEPT !.limit = page.Limit, !.calls = Called(qq, "Page", "ok")]

-----------------------------------------------------------------------------
(* TradesQ.Select: q.parent.Select(dest, q.sql) evaluated on the tables. *)

\* One WHERE clause on a stored row.
Holds(w, r) ==
    IF w.t = "offer" THEN r.base_offer_id = w.a \/ r.counter_offer_id = w.a
    ELSE IF w.t = "pair" THEN r.base_asset_id = w.a /\ r.counter_asset_id = w.b
    ELSE IF w.t = "ledger" THEN r.history_operation_id >= w.a /\ r.history_operation_id <= w.b
    ELSE IF w.t = "account" THEN r.base_account_id = w.a \/ r.counter_account_id = w.a
    ELSE IF w.t = "page" /\ w.dir = "asc" THEN
        /\ r.history_operation_id >= w.a
        /\ \/ r.history_operation_id > w.a
           \/ (r.history_operation_id = w.a /\ r.order > w.b)
    ELSE IF w.t = "page" /\ w.dir = "desc" THEN
        /\ r.history_operation_id <= w.a
        /\ \/ r.history_operation_id < w.a
           \/ (r.history_operation_id = w.a /\ r.order < w.b)
    ELSE TRUE

\* (history_operation_id, "order") of a before that of b.
KeyLess(a, b) ==
    \/ a.history_operation_id < b.history_operation_id
    \/ (a.history_operation_id = b.history_operation_id /\ a.order < b.order)

Before(a, b, dir) == IF dir = "desc" THEN KeyLess(b, a) ELSE KeyLess(a, b)

\* Every sequence the rows S can come back in under ORDER BY `orderBy`: the
\* first clause decides; without a clause the engine returns any order.
RECURSIVE Orderings(_, _)
Orderings(S, orderBy) ==
    IF S = {} THEN {<<>>}
    ELSE LET firsts == IF orderBy = <<>> THEN S
                       ELSE {r \in S : \A o \in S \ {r} : Before(r, o, orderBy[1])}
         IN UNION {{<<r>> \o rest : rest \in Orderings(S \ {r}, orderBy)} : r \in firsts}

Take(s, limit) ==
    IF limit = NoLimit \/ limit >= Len(s) THEN s ELSE SubSeq(s, 1, limit)

TableOf(qq) == IF qq.src = "exp_history_trades" THEN expHistoryTrades ELSE historyTrades
AccountsOf(qq) == IF qq.src = "exp_history_trades" THEN expHistoryAccounts ELSE historyAccounts
AssetsOf(qq) == IF qq.src = "exp_history_trades" THEN expHistoryAssets ELSE historyAssets

Project(qq, r) ==
    IF qq.fields = "selectReverseTradeFields"
    THEN selectReverseTradeFields(r, AccountsOf(qq), AssetsOf(qq))
    ELSE selectTradeFields(r, AccountsOf(qq), AssetsOf(qq))

\* The results the store can give for the query of qq.
QueryResults(qq) ==
    LET S == {r \in TableOf(qq) : \A w \in qq.where : Holds(w, r)}
    IN {[i \in 1 .. Len(Take(s, qq.limit)) |-> Project(qq, s[i])] : s \in Orderings(S, qq.orderBy)}

\* Select: [err, rows, executed] for each way the store can answer; dbFails
\* is a failing read.
Select(qq, dbFails) ==
    IF qq.Err # "nil"
    THEN {[err |-> qq.Err, rows |-> <<>>, executed |-> FALSE]}
    ELSE IF dbFails
    THEN {[err |-> "select failed", rows |-> <<>>, executed |-> TRUE]}
    ELSE {[err |-> "nil", rows |-> rows, executed |-> TRUE] : rows \in QueryResults(qq)}

-----------------------------------------------------------------------------
(* The inputs of InsertTrade. *)

Call(opid, order, seller, buyer, exists, buyOffer, offerId, sold, bought, ms) ==
    [opid |-> opid, order |-> order, buyer |-> buyer,
     buyOfferExists |-> exists, buyOffer |-> buyOffer,
     trade |-> [SellerId |-> seller, OfferId |-> offerId,
                AssetSold |-> sold, AssetBought |-> bought,
                AmountSold |-> 50, AmountBought |-> 20],
     sellPrice |-> [N |-> 2, D |-> 5],
     ledgerClosedAt |-> ms]

Init ==
    /\ historyTrades = {}
    /\ expHistoryTrades = {}
    /\ historyAccounts = [a \in Addresses |-> 0]
    /\ expHistoryAccounts = [a \in Addresses |-> 0]
    /\ historyAssets = [a \in AssetKeys |-> 0]
    /\ expHistoryAssets = [a \in AssetKeys |-> 0]
    /\ recorded = {}
    /\ expRecorded = {}
    /\ q = NoQ
    /\ ret = Returned("none", "nil")
    /\ pager = [started |-> FALSE, order |-> "asc", limit |-> 1, cursor |-> <<>>,
                seen |-> <<>>, pages |-> 0, done |-> FALSE, err |-> "nil"]

-----------------------------------------------------------------------------
(* Spec: the recorder, fed trades of every asset orientation at every
   (operation id, order), with every collaborator failure. *)

RecorderOpIds == 1 .. MaxOfferId

RecorderCalls ==
    {Call(op, ord, "GSELL", "GBUY", TRUE, 2, 1, sold, bought, 1000) :
        op \in RecorderOpIds, ord \in Orders, sold \in AssetKeys, bought \in AssetKeys}

Next ==
    /\ Cardinality(historyTrades) < MaxTrades
    /\ \E c \in RecorderCalls, fail \in Fails : InsertTrade(c, fail)

Spec == Init /\ [][Next]_vars

SoldAssetId(c) == historyAssets[c.trade.AssetSold]
BoughtAssetId(c) == historyAssets[c.trade.AssetBought]

\* The stored rows of the call c.
RowsOf(c) ==
    {r \in historyTrades : r.history_operation_id = c.opid /\ r.order = c.order}

\* C1 as stated: every stored trade row has base_asset_id strictly less than
\* counter_asset_id, whatever asset ids the resolver returned.
C1_StrictOrderAlways ==
    \A r \in historyTrades : r.base_asset_id < r.counter_asset_id

\* C1, amended: every stored row has base_asset_id <= counter_asset_id, the
\* two being the ids of the sold and the bought asset, and base_asset_id is
\* strictly less than counter_asset_id whenever the trade's sold and bought
\* assets differ.
C1_CanonicalOrder ==
    /\ \A r \in historyTrades : r.base_asset_id <= r.counter_asset_id
    /\ \A c \in recorded :
         /\ RowsOf(c) # {}
         /\ \A r \in RowsOf(c) :
              /\ {r.base_asset_id, r.counter_asset_id} = {SoldAssetId(c), BoughtAssetId(c)}
              /\ (c.trade.AssetSold # c.trade.AssetBought
                    => r.base_asset_id < r.counter_asset_id)

\* A trade whose sold asset has the larger id was recorded (the sides were swapped).
C1_Witness ==
    \E c \in recorded : SoldAssetId(c) > BoughtAssetId(c) /\ RowsOf(c) # {}

\* The row TradesForAssetPair must give for the call c seen from the seller's side.
SellerSideRow(c) ==
    [HistoryOperationID |-> c.opid,
     Order              |-> c.order,
     LedgerCloseTime    |-> ToTime(c.ledgerClosedAt),
     OfferID            |-> c.trade.OfferId,
     BaseOfferID        |-> sellOfferId(c),
     BaseAccount        |-> c.trade.SellerId,
     BaseAssetType      |-> c.trade.AssetSold.type,
     BaseAssetCode      |-> c.trade.AssetSold.code,
     BaseAssetIssuer    |-> c.trade.AssetSold.issuer,
     BaseAmount         |-> c.trade.AmountSold,
     CounterOfferID     |-> buyOfferId(c),
     CounterAccount     |-> c.buyer,
     CounterAssetType   |-> c.trade.AssetBought.type,
     CounterAssetCode   |-> c.trade.AssetBought.code,
     CounterAssetIssuer |-> c.trade.AssetBought.issuer,
     CounterAmount      |-> c.trade.AmountBought,
     BaseIsSeller       |-> TRUE,
     PriceN             |-> c.sellPrice.N,
     PriceD             |-> c.sellPrice.D]

\* The same trade seen from the buyer's side.
BuyerSideRow(c) ==
    [HistoryOperationID |-> c.opid,
     Order              |-> c.order,
     LedgerCloseTime    |-> ToTime(c.ledgerClosedAt),
     OfferID            |-> c.trade.OfferId,
     BaseOfferID        |-> buyOfferId(c),
     BaseAccount        |-> c.buyer,
     BaseAssetType      |-> c.trade.AssetBought.type,
     BaseAssetCode      |-> c.trade.AssetBought.code,
     BaseAssetIssuer    |-> c.trade.AssetBought.issuer,
     BaseAmount         |-> c.trade.AmountBought,
     CounterOfferID     |-> sellOfferId(c),
     CounterAccount     |-> c.trade.SellerId,
     CounterAssetType   |-> c.trade.AssetSold.type,
     CounterAssetCode   |-> c.trade.AssetSold.code,
     CounterAssetIssuer |-> c.trade.AssetSold.issuer,
     CounterAmount      |-> c.trade.AmountSold,
     BaseIsSeller       |-> FALSE,
     PriceN             |-> c.sellPrice.D,
     PriceD             |-> c.sellPrice.N]

\* The rows of a result that belong to the call c.
ResultRowsOf(res, c) ==
    {res.rows[i] : i \in {j \in 1 .. Len(res.rows) :
                            /\ res.rows[j].HistoryOperationID = c.opid
                            /\ res.rows[j].Order = c.order}}

\* C2: for every recorded trade whose sold and bought asset ids differ,
\* whichever is smaller, TradesForAssetPair(sold id, bought id) returns its
\* row with the seller as base (amount sold, base_is_seller, price N/D) and
\* TradesForAssetPair(bought id, sold id) returns the mirrored row (buyer as
\* base, amounts and offer ids swapped, not base_is_seller, price D/N).
C2_RoundTrip ==
    \A c \in recorded :
        SoldAssetId(c) # BoughtAssetId(c) =>
            /\ \A res \in Select(TradesForAssetPair(SoldAssetId(c), BoughtAssetId(c)), FALSE) :
                 ResultRowsOf(res, c) = {SellerSideRow(c)}
            /\ \A res \in Select(TradesForAssetPair(BoughtAssetId(c), SoldAssetId(c)), FALSE) :
                 ResultRowsOf(res, c) = {BuyerSideRow(c)}

\* Trades of both storage orientations are recorded and are read back.
C2_Witness ==
    /\ \E c \in recorded : SoldAssetId(c) > BoughtAssetId(c)
    /\ \E c \in recorded :
         /\ SoldAssetId(c) < BoughtAssetId(c)
         /\ \E res \in Select(TradesForAssetPair(BoughtAssetId(c), SoldAssetId(c)), FALSE) :
              ResultRowsOf(res, c) # {}

-----------------------------------------------------------------------------
(* SpecOffers: the recorder, fed every offer id, with and without a
   persisted buy offer, at operation ids that overlap the raw offer ids. *)

OfferCalls ==
    {Call(op, 0, "GSELL", "GBUY", TRUE, buyOffer, offerId, AssetX, AssetY, 1000) :
        op \in RecorderOpIds, buyOffer \in OfferIds, offerId \in OfferIds}
    \cup
    {Call(op, 0, "GSELL", "GBUY", FALSE, 0, offerId, AssetX, AssetY, 1000) :
        op \in RecorderOpIds, offerId \in OfferIds}

NextOffers ==
    /\ Cardinality(historyTrades) < MaxTrades
    /\ \E c \in OfferCalls, fail \in {"none", "exec"} : InsertTrade(c, fail)

SpecOffers == Init /\ [][NextOffers]_vars

\* The stored offer id of the side that sold, and of the side that bought.
SellSideOfferId(r) == IF r.base_is_seller THEN r.base_offer_id ELSE r.counter_offer_id
BuySideOfferId(r) == IF r.base_is_seller THEN r.counter_offer_id ELSE r.base_offer_id

\* The encoded ids stored for an operation id, and those stored for an offer id.
SyntheticIds ==
    {BuySideOfferId(r) : r \in UNION {RowsOf(c) : c \in {d \in recorded : ~d.buyOfferExists}}}

OnChainIds ==
    {SellSideOfferId(r) : r \in historyTrades}
    \cup {BuySideOfferId(r) : r \in UNION {RowsOf(c) : c \in {d \in recorded : d.buyOfferExists}}}

\* C9: every stored row holds the taker's offer id encoded as an on-chain
\* id, and the buy side's offer id encoded as an on-chain id when
\* buyOfferExists and else the operation id encoded as a synthetic id; and
\* over all stored rows no synthetic encoded id equals an on-chain encoded id.
C9_OfferNamespaces ==
    /\ \A c \in recorded :
         /\ RowsOf(c) # {}
         /\ \A r \in RowsOf(c) :
              /\ r.offer_id = c.trade.OfferId
              /\ SellSideOfferId(r) = EncodeOfferId(c.trade.OfferId, CoreOfferIDType)
              /\ BuySideOfferId(r) = IF c.buyOfferExists
                                     THEN EncodeOfferId(c.buyOffer, CoreOfferIDType)
                                     ELSE EncodeOfferId(c.opid, TOIDType)
    /\ SyntheticIds \cap OnChainIds = {}

\* A row holds a synthetic id whose raw operation id equals the raw offer id
\* stored on-chain in another row, in both storage orientations.
C9_Witness ==
    \E c1, c2 \in recorded :
        /\ ~c1.buyOfferExists
        /\ c2.buyOfferExists
        /\ c1.opid = c2.buyOffer
        /\ c1.opid = c2.trade.OfferId
        /\ \E r \in RowsOf(c1) : ~r.base_is_seller

-----------------------------------------------------------------------------
(* CheckExpTrades *)

alignExpTradeKeepPrice(expTrade, trade) ==
    IF expTrade.BaseIsSeller # trade.BaseIsSeller
    THEN [expTrade EXCEPT
            !.BaseOfferID = expTrade.CounterOfferID,
            !.CounterOfferID = expTrade.BaseOfferID,
            !.BaseAccount = expTrade.CounterAccount,
            !.CounterAccount = expTrade.BaseAccount,
            !.BaseAssetType = expTrade.CounterAssetType,
            !.CounterAssetType = expTrade.BaseAssetType,
            !.BaseAssetCode = expTrade.CounterAssetCode,
            !.CounterAssetCode = expTrade.BaseAssetCode,
            !.BaseAssetIssuer = expTrade.CounterAssetIssuer,
            !.CounterAssetIssuer = expTrade.BaseAssetIssuer,
            !.BaseAmount = expTrade.CounterAmount,
            !.CounterAmount = expTrade.BaseAmount,
            !.BaseIsSeller = trade.BaseIsSeller]
    ELSE expTrade

\* The swaps CheckExpTrades applies to expTrade when the two rows disagree
\* on BaseIsSeller.
alignExpTrade(expTrade, trade) ==
    IF expTrade.BaseIsSeller # trade.BaseIsSeller
    THEN [expTrade EXCEPT
            !.BaseOfferID = expTrade.CounterOfferID,
            !.CounterOfferID = expTrade.BaseOfferID,
            !.BaseAccount = expTrade.CounterAccount,
            !.CounterAccount = expTrade.BaseAccount,
            !.BaseAssetType = expTrade.CounterAssetType,
            !.CounterAssetType = expTrade.BaseAssetType,
            !.BaseAssetCode = expTrade.CounterAssetCode,
            !.CounterAssetCode = expTrade.BaseAssetCode,
            !.BaseAssetIssuer = expTrade.CounterAssetIssuer,
            !.CounterAssetIssuer = expTrade.BaseAssetIssuer,
            !.BaseAmount = expTrade.CounterAmount,
            !.CounterAmount = expTrade.BaseAmount,
            !.PriceN = expTrade.PriceD,
            !.PriceD = expTrade.PriceN,
            !.BaseIsSeller = trade.BaseIsSeller]
    ELSE expTrade

\* One turn of the loop: FALSE when the rows at index i differ.
tradesMatch(trade, expTrade) ==
    LET expClosedAt == expTrade.LedgerCloseTime
        e1 == [expTrade EXCEPT !.LedgerCloseTime = trade.LedgerCloseTime]
    IN IF Unix(expClosedAt) # Unix(trade.LedgerCloseTime) THEN FALSE
       ELSE alignExpTrade(e1, trade) = trade

\* The loop over trades from index i on.
RECURSIVE compareFrom(_, _, _)
compareFrom(tr, exp, i) ==
    IF i > Len(tr) THEN TRUE
    ELSE IF ~tradesMatch(tr[i], exp[i]) THEN FALSE
    ELSE compareFrom(tr, exp, i + 1)

compareTradesBothEmpty(tr, exp) ==
    IF Len(tr) = 0 /\ Len(exp) = 0 THEN TRUE
    ELSE IF Len(tr) # Len(exp) THEN FALSE
    ELSE compareFrom(tr, exp, 1)

\* CheckExpTrades once both reads have succeeded.
compareTrades(tr, exp) ==
    IF Len(tr) = 0 \/ Len(exp) = 0 THEN TRUE
    ELSE IF Len(tr) # Len(exp) THEN FALSE
    ELSE compareFrom(tr, exp, 1)

\* CheckExpTrades(seq): every [consistent, err] it can return, with the two
\* sequences it fetched; readFails names the read that fails.
CheckExpTrades(seq, readFails) ==
    {IF a.err # "nil"
        THEN [consistent |-> FALSE, err |-> a.err, trades |-> <<>>, expTrades |-> <<>>]
     ELSE IF b.err # "nil"
        THEN [consistent |-> FALSE, err |-> b.err, trades |-> a.rows, expTrades |-> <<>>]
     ELSE [consistent |-> compareTrades(a.rows, b.rows), err |-> "nil",
           trades |-> a.rows, expTrades |-> b.rows] :
        a \in Select(ForLedger(Trades, seq, "asc"), readFails = "trades"),
        b \in Select(ForLedger(expTrades, seq, "asc"), readFails = "expTrades")}

CheckExpTradesCall(seq, readFails) ==
    /\ \E o \in CheckExpTrades(seq, readFails) :
         ret' = [op |-> "CheckExpTrades", err |-> o.err, rows |-> <<>>,
                 executed |-> TRUE, consistent |-> o.consistent, of |-> NoQ]
    /\ UNCHANGED <<historyTrades, expHistoryTrades, historyAccounts, expHistoryAccounts,
                   historyAssets, expHistoryAssets, recorded, expRecorded, q, pager>>

-----------------------------------------------------------------------------
(* SpecCheck: the two pipelines record trades of ledger 1, each with its own
   id tables, and CheckExpTrades compares them. *)

CheckedLedger == 1

CheckOpIds == {ToInt64(CheckedLedger), ToInt64(CheckedLedger) + 1}

CloseTimes == {1000, 1500, 2000}

CheckCalls ==
    {Call(op, 0, "GSELL", "GBUY", TRUE, 2, 1, AssetX, AssetY, ms) :
        op \in CheckOpIds, ms \in CloseTimes}
    \cup
    {Call(op, 0, "GSELL", "GBUY", TRUE, 2, 1, AssetY, AssetX, 1000) : op \in CheckOpIds}

NextCheck ==
    \/ /\ Cardinality(historyTrades) < MaxTrades
       /\ \E c \in CheckCalls : InsertTrade(c, "none")
    \/ /\ Cardinality(expHistoryTrades) < MaxTrades
       /\ \E c \in CheckCalls : ExpInsertTrade(c, "none")
    \/ \E readFails \in {"none", "trades", "expTrades"} :
         CheckExpTradesCall(CheckedLedger, readFails)

SpecCheck == Init /\ [][NextCheck]_vars

\* C5: when both pipelines have recorded the same trade events of the
\* ledger, each through its own asset id table, CheckExpTrades finds the
\* ledger consistent.
C5_SameEventsConsistent ==
    recorded = expRecorded =>
        \A o \in CheckExpTrades(CheckedLedger, "none") : o.err = "nil" /\ o.consistent

\* Both pipelines hold the same two events and store one in opposite orientation.
C5_Witness ==
    /\ recorded = expRecorded
    /\ Cardinality(recorded) = 2
    /\ \E r \in historyTrades, e \in expHistoryTrades :
         /\ r.history_operation_id = e.history_operation_id
         /\ r.order = e.order
         /\ r.base_is_seller # e.base_is_seller

\* The reverse projection of a Trade: base and counter exchanged, price
\* inverted, BaseIsSeller negated.
ReverseProjected(t) ==
    [HistoryOperationID |-> t.HistoryOperationID,
     Order              |-> t.Order,
     LedgerCloseTime    |-> t.LedgerCloseTime,
     OfferID            |-> t.OfferID,
     BaseOfferID        |-> t.CounterOfferID,
     BaseAccount        |-> t.CounterAccount,
     BaseAssetType      |-> t.CounterAssetType,
     BaseAssetCode      |-> t.CounterAssetCode,
     BaseAssetIssuer    |-> t.CounterAssetIssuer,
     BaseAmount         |-> t.CounterAmount,
     CounterOfferID     |-> t.BaseOfferID,
     CounterAccount     |-> t.BaseAccount,
     CounterAssetType   |-> t.BaseAssetType,
     CounterAssetCode   |-> t.BaseAssetCode,
     CounterAssetIssuer |-> t.BaseAssetIssuer,
     CounterAmount      |-> t.BaseAmount,
     BaseIsSeller       |-> ~t.BaseIsSeller,
     PriceN             |-> t.PriceD,
     PriceD             |-> t.PriceN]

\* Equal in every field but the close time, which is equal to the second.
SameTrade(t, e) ==
    /\ Unix(t.LedgerCloseTime) = Unix(e.LedgerCloseTime)
    /\ [e EXCEPT !.LedgerCloseTime = t.LedgerCloseTime] = t

\* C6: when both reads succeed CheckExpTrades returns consistent = TRUE
\* exactly when one of the fetched sequences is empty, or they have the same
\* length and at every index the rows are the same trade, the candidate row
\* being reverse-projected when the two disagree on BaseIsSeller.
C6_ConsistentIff ==
    \A o \in CheckExpTrades(CheckedLedger, "none") :
        /\ o.err = "nil"
        /\ o.consistent <=>
             \/ Len(o.trades) = 0
             \/ Len(o.expTrades) = 0
             \/ /\ Len(o.trades) = Len(o.expTrades)
                /\ \A i \in 1 .. Len(o.trades) :
                     IF o.trades[i].BaseIsSeller = o.expTrades[i].BaseIsSeller
                     THEN SameTrade(o.trades[i], o.expTrades[i])
                     ELSE SameTrade(o.trades[i], ReverseProjected(o.expTrades[i]))

\* CheckExpTrades has answered FALSE on two non-empty sequences of different lengths.
C6_Witness ==
    /\ ret.op = "CheckExpTrades"
    /\ ret.err = "nil"
    /\ ~ret.consistent
    /\ Cardinality(historyTrades) = 2
    /\ Cardinality(expHistoryTrades) = 1

-----------------------------------------------------------------------------
(* The builder methods as steps of a caller that builds one TradesQ at a
   time and then runs it. *)

\* A builder method returns the TradesQ; the tables are left alone.
QueryUnchanged ==
    /\ ret' = Returned("TradesQ", "nil")
    /\ UNCHANGED <<historyTrades, expHistoryTrades, historyAccounts, expHistoryAccounts,
                   historyAssets, expHistoryAssets, recorded, expRecorded, pager>>

Chaining == q.src # "none" /\ q.calls.n < MaxChain

TradesCall == q' = Trades /\ QueryUnchanged

ReverseTradesCall == q' = ReverseTrades /\ QueryUnchanged

TradesForAssetPairCall(baseAssetId, counterAssetId) ==
    q' = TradesForAssetPair(baseAssetId, counterAssetId) /\ QueryUnchanged

ForOfferCall(id) == Chaining /\ q' = ForOffer(q, id) /\ QueryUnchanged

ForLedgerCall(sequence, order) ==
    Chaining /\ q' = ForLedger(q, sequence, order) /\ QueryUnchanged

ForAccountCall(aid) == Chaining /\ q' = ForAccount(q, aid) /\ QueryUnchanged

PageCall(page) == Chaining /\ q' = Page(q, page) /\ QueryUnchanged

SelectCall(dbFails) ==
    /\ q.src # "none"
    /\ \E res \in Select(q, dbFails) :
         ret' = [op |-> "Select", err |-> res.err, rows |-> res.rows,
                 executed |-> res.executed, consistent |-> FALSE, of |-> q]
    /\ q' = NoQ
    /\ UNCHANGED <<historyTrades, expHistoryTrades, historyAccounts, expHistoryAccounts,
                   historyAssets, expHistoryAssets, recorded, expRecorded, pager>>

-----------------------------------------------------------------------------
(* SpecBuilder: one caller records trades of ledger 1 and of the first
   operation id of ledger 2, with every failure, and between two inserts
   builds queries and runs them. *)

BuilderOpIds ==
    {ToInt64(CheckedLedger), ToInt64(CheckedLedger) + 1, ToInt64(CheckedLedger + 1)}

BuilderCalls ==
    {Call(op, 0, "GSELL", "GBUY", TRUE, 2, 1, AssetX, AssetY, 1000) : op \in BuilderOpIds}

BuilderPages ==
    {[Cursor |-> <<>>, Order |-> "asc", Limit |-> 1],
     [Cursor |-> <<>>, Order |-> "desc", Limit |-> 1],
     [Cursor |-> <<"x">>, Order |-> "asc", Limit |-> 1]}

NextBuilder ==
    \/ /\ Cardinality(historyTrades) < MaxTrades
       /\ q = NoQ
       /\ \E c \in BuilderCalls, fail \in Fails : InsertTrade(c, fail)
    \/ TradesCall
    \/ ReverseTradesCall
    \/ TradesForAssetPairCall(2, 1)
    \/ ForOfferCall(EncodeOfferId(1, CoreOfferIDType))
    \/ ForLedgerCall(CheckedLedger, "asc")
    \/ ForAccountCall("GBUY")
    \/ \E page \in BuilderPages : PageCall(page)
    \/ \E dbFails \in BOOLEAN : SelectCall(dbFails)
    \/ CheckExpTradesCall(CheckedLedger, "none")

\* history_accounts already holds the buyer's account, created by the
\* ingestion of an earlier operation.
InitBuilder ==
    /\ historyTrades = {}
    /\ expHistoryTrades = {}
    /\ historyAccounts = [a \in Addresses |-> IF a = "GBUY" THEN 1 ELSE 0]
    /\ expHistoryAccounts = [a \in Addresses |-> 0]
    /\ historyAssets = [a \in AssetKeys |-> 0]
    /\ expHistoryAssets = [a \in AssetKeys |-> 0]
    /\ recorded = {}
    /\ expRecorded = {}
    /\ q = NoQ
    /\ ret = Returned("none", "nil")
    /\ pager = [started |-> FALSE, order |-> "asc", limit |-> 1, cursor |-> <<>>,
                seen |-> <<>>, pages |-> 0, done |-> FALSE, err |-> "nil"]

SpecBuilder == InitBuilder /\ [][NextBuilder]_vars

\* The operation ids of the trades stored in history_trades.
StoredIn(from, to) ==
    {r.history_operation_id :
        r \in {s \in historyTrades : s.history_operation_id >= from /\ s.history_operation_id < to}}

\* C4: ForLedger(sequence, order) selects exactly the stored trades whose
\* operation_id lies in [begin, end), begin and end being the operation ids
\* of the ledgers sequence and sequence + 1; a trade at end is not selected.
C4_HalfOpenRange ==
    (/\ ret.op = "Select"
     /\ ret.err = "nil"
     /\ ret.of = ForLedger(Trades, CheckedLedger, "asc"))
        => {ret.rows[i].HistoryOperationID : i \in 1 .. Len(ret.rows)}
             = StoredIn(ToInt64(CheckedLedger), ToInt64(CheckedLedger + 1))

\* C7: when a Page call of the chain had a malformed cursor, Select returns
\* the cursor error and runs no query, whatever the other filters.
C7_MalformedCursorRejected ==
    (ret.op = "Select" /\ ret.of.calls.malformed)
        => (ret.err = "invalid cursor" /\ ~ret.executed)

\* C8: a step changes history_trades only if it is an InsertTrade that
\* returns nil, which adds exactly one row and leaves every other row as it
\* was; an InsertTrade that returns an error, and every query operation,
\* leaves history_trades unchanged.
C8_InsertFrame ==
    [][IF ret'.op = "InsertTrade" /\ ret'.err = "nil"
       THEN \E r \in historyTrades' :
               /\ r \notin historyTrades
               /\ historyTrades' = historyTrades \cup {r}
       ELSE historyTrades' = historyTrades]_vars

\* A second row has been added next to a stored one and a query has then
\* returned rows.
C8_Witness ==
    /\ Cardinality(historyTrades) = 2
    /\ ret.op = "Select"
    /\ ret.executed
    /\ Len(ret.rows) > 0
    /\ historyAccounts["GBUY"] # 0

-----------------------------------------------------------------------------
(* SpecPage: trades are recorded, then a client pages through Trades() in
   one direction with one limit, feeding the PagingToken of the last row of
   each page back as the cursor of the next, until a page comes back empty. *)

PageOpIds == 9 .. (8 + MaxLimit)

PagedCalls ==
    {Call(op, ord, "GSELL", "GBUY", TRUE, 2, 1, AssetX, AssetY, 1000) :
        op \in PageOpIds, ord \in Orders}

StartPaging(order, limit) ==
    /\ ~pager.started
    /\ pager' = [started |-> TRUE, order |-> order, limit |-> limit, cursor |-> <<>>,
                 seen |-> <<>>, pages |-> 0, done |-> FALSE, err |-> "nil"]
    /\ UNCHANGED <<historyTrades, expHistoryTrades, historyAccounts, expHistoryAccounts,
                   historyAssets, expHistoryAssets, recorded, expRecorded, q, ret>>

KeyOf(t) == [history_operation_id |-> t.HistoryOperationID, order |-> t.Order]

FetchPage ==
    /\ pager.started
    /\ ~pager.done
    /\ \E res \in Select(Page(Trades, [Cursor |-> pager.cursor, Order |-> pager.order,
                                       Limit |-> pager.limit]), FALSE) :
         /\ ret' = [op |-> "Select", err |-> res.err, rows |-> res.rows,
                    executed |-> res.executed, consistent |-> FALSE, of |-> NoQ]
         /\ pager' =
              IF res.err # "nil" THEN [pager EXCEPT !.done = TRUE, !.err = res.err]
              ELSE IF Len(res.rows) = 0 THEN [pager EXCEPT !.done = TRUE, !.pages = @ + 1]
              ELSE [pager EXCEPT
                      !.seen = @ \o [i \in 1 .. Len(res.rows) |-> KeyOf(res.rows[i])],
                      !.cursor = PagingToken(res.rows[Len(res.rows)]),
                      !.pages = @ + 1]
    /\ UNCHANGED <<historyTrades, expHistoryTrades, historyAccounts, expHistoryAccounts,
                   historyAssets, expHistoryAssets, recorded, expRecorded, q>>

NextPage ==
    \/ /\ ~pager.started
       /\ Cardinality(historyTrades) < MaxPagedTrades
       /\ \E c \in PagedCalls : InsertTrade(c, "none")
    \/ \E order \in {"asc", "desc"}, limit \in 1 .. MaxLimit : StartPaging(order, limit)
    \/ FetchPage

SpecPage == Init /\ [][NextPage]_vars

StoredKeys ==
    {[history_operation_id |-> r.history_operation_id, order |-> r.order] : r \in historyTrades}

SeenKeys == {pager.seen[i] : i \in 1 .. Len(pager.seen)}

\* C3: the pages, taken in order asc (desc) with the last row's PagingToken
\* as the next cursor, give stored trades in strictly increasing (strictly
\* decreasing) order of (operation_id, order): no row comes twice, no row
\* before the last one returned is left out, and once a page comes back
\* empty every stored trade has been returned exactly once.
C3_PagingComplete ==
    pager.started =>
        /\ pager.err = "nil"
        /\ SeenKeys \subseteq StoredKeys
        /\ \A i, j \in 1 .. Len(pager.seen) :
             i < j => Before(pager.seen[i], pager.seen[j], pager.order)
        /\ \A k \in StoredKeys \ SeenKeys :
             \A i \in 1 .. Len(pager.seen) : Before(pager.seen[i], k, pager.order)
        /\ pager.done => (SeenKeys = StoredKeys /\ Len(pager.seen) = Cardinality(StoredKeys))

\* Three trades, two of them of one operation, have been paged to the end in
\* descending order, two rows a page.
C3_Witness ==
    /\ pager.done
    /\ pager.order = "desc"
    /\ pager.limit = 2
    /\ Len(pager.seen) = 3
    /\ pager.pages = 3
    /\ \E i, j \in 1 .. 3 :
         /\ i # j
         /\ pager.seen[i].history_operation_id = pager.seen[j].history_operation_id

====
